---- MODULE Spec2Model ----
(***************************************************************************)
(* Apple App Store Server Notification (ASSN v2) gateway.                  *)
(*                                                                         *)
(* The repository holds the webhook handler in several deployed variants   *)
(* (api/webhook.js and two further files); they share msToIso,             *)
(* mapOperation and the normalisation, and differ in how verifyAndDecode   *)
(* resolves the verification key and in what a POST without signedPayload  *)
(* gets back.  The variant is a variable fixed at deployment.              *)
(*                                                                         *)
(* JavaScript values are tagged records: JUndef, JNull, JStr(s), JNum(n),  *)
(* JNaN.  Numbers that stand for timestamps are counted in units of 10^8   *)
(* (so 17 is 1700000000 and 17000 is 1700000000000): TLC's integers are    *)
(* 32 bits wide and the code's threshold 1e12 does not fit.                *)
(***************************************************************************)
EXTENDS Integers, Sequences, FiniteSets, TLC

VARIABLES
    variant,    \* which handler file is deployed
    pc,         \* position of the handler in the request it is serving
    req,        \* the request being served: [method, body]
    note,       \* decoded outer claim set (const note)
    txnInfo,    \* decoded transaction claim set, JNull when not present
    renInfo,    \* decoded renewal claim set, JNull when not present
    results,    \* what verifyAndDecode returned, per layer
    out,        \* the normalized event (const out)
    prevOut,    \* the event built when this same request was delivered before
    clock,      \* the wall clock read by new Date()
    forwards,   \* bodies POSTed to BUBBLE_HOOK_URL for this request
    forward,    \* what fetch resolved to (const forward)
    res         \* the response sent to the caller

vars == <<variant, pc, req, note, txnInfo, renInfo, results, out, prevOut,
          clock, forwards, forward, res>>

----------------------------------------------------------------------------
(* JavaScript values *)

JUndef == [t |-> "undefined"]
JNull == [t |-> "null"]
JNaN == [t |-> "NaN"]
JStr(s) == [t |-> "string", s |-> s]
JNum(n) == [t |-> "number", n |-> n]

\* ToBoolean: undefined, null, 0, NaN and "" are falsy, everything else
\* (every non-empty string, "0" included, and every object) is truthy.
Truthy(v) ==
    CASE v.t = "undefined" -> FALSE
      [] v.t = "null" -> FALSE
      [] v.t = "NaN" -> FALSE
      [] v.t = "number" -> v.n # 0
      [] v.t = "string" -> v.s # ""
      [] OTHER -> TRUE

\* a || b
Or(a, b) == IF Truthy(a) THEN a ELSE b

\* obj?.field : undefined when obj is null or undefined, or has no such
\* property
Get(obj, field) ==
    IF field \in DOMAIN obj THEN obj[field] ELSE JUndef

Digits == <<"0", "1", "2", "3", "4", "5", "6", "7", "8", "9">>

IsDigit(c) == \E i \in 1..10 : Digits[i] = c

DigitVal(c) == (CHOOSE i \in 1..10 : Digits[i] = c) - 1

RECURSIVE ParseDigits(_, _)
ParseDigits(s, acc) ==
    IF s = "" THEN acc
    ELSE ParseDigits(SubSeq(s, 2, Len(s)), acc * 10 + DigitVal(SubSeq(s, 1, 1)))

RECURSIVE AllDigits(_)
AllDigits(s) ==
    s = "" \/ (IsDigit(SubSeq(s, 1, 1)) /\ AllDigits(SubSeq(s, 2, Len(s))))

\* Number(v): ToNumber.  "" is 0, a decimal string is its value (with an
\* optional leading minus), any other string is NaN; null is 0, undefined NaN.
Number(v) ==
    CASE v.t = "number" -> v
      [] v.t = "NaN" -> JNaN
      [] v.t = "null" -> JNum(0)
      [] v.t = "undefined" -> JNaN
      [] v.t = "string" ->
            IF v.s = "" THEN JNum(0)
            ELSE IF AllDigits(v.s) THEN JNum(ParseDigits(v.s, 0))
            ELSE IF Len(v.s) > 1 /\ SubSeq(v.s, 1, 1) = "-"
                    /\ AllDigits(SubSeq(v.s, 2, Len(v.s)))
                 THEN JNum(0 - ParseDigits(SubSeq(v.s, 2, Len(v.s)), 0))
            ELSE JNaN
      [] OTHER -> JNaN

\* String(v)
String(v) ==
    CASE v.t = "string" -> v
      [] v.t = "number" -> JStr(ToString(v.n))
      [] v.t = "NaN" -> JStr("NaN")
      [] v.t = "null" -> JStr("null")
      [] v.t = "undefined" -> JStr("undefined")
      [] OTHER -> JStr("[object Object]")

Lower == <<"a", "b", "c", "d", "e", "f", "g", "h", "i", "j", "k", "l", "m",
           "n", "o", "p", "q", "r", "s", "t", "u", "v", "w", "x", "y", "z">>

Upper == <<"A", "B", "C", "D", "E", "F", "G", "H", "I", "J", "K", "L", "M",
           "N", "O", "P", "Q", "R", "S", "T", "U", "V", "W", "X", "Y", "Z">>

UpChar(c) ==
    IF \E i \in 1..26 : Lower[i] = c
    THEN Upper[CHOOSE i \in 1..26 : Lower[i] = c]
    ELSE c

LowChar(c) ==
    IF \E i \in 1..26 : Upper[i] = c
    THEN Lower[CHOOSE i \in 1..26 : Upper[i] = c]
    ELSE c

RECURSIVE toUpperCase(_)
toUpperCase(s) ==
    IF s = "" THEN ""
    ELSE UpChar(SubSeq(s, 1, 1)) \o toUpperCase(SubSeq(s, 2, Len(s)))

RECURSIVE toLowerCase(_)
toLowerCase(s) ==
    IF s = "" THEN ""
    ELSE LowChar(SubSeq(s, 1, 1)) \o toLowerCase(SubSeq(s, 2, Len(s)))

----------------------------------------------------------------------------
(* Exceptions: an operator that can throw returns Throw(name) instead of a *)
(* value.                                                                  *)

Throw(name) == [t |-> "throw", name |-> name]

Throws(v) == v.t = "throw"

----------------------------------------------------------------------------
(* msToIso *)

\* 1e12, in units of 10^8
Threshold == 10000

\* The largest time value of a Date, 8.64e15 ms, in units of 10^8
MaxTimeValue == 864 * 100000

\* new Date(t).toISOString(): the rendering of the instant t, RangeError for
\* an invalid date (NaN or beyond the time-value range).
toISOString(n) ==
    IF n.t # "number" \/ n.n > MaxTimeValue \/ n.n < 0 - MaxTimeValue
    THEN Throw("RangeError")
    ELSE JStr("T" \o ToString(n.n))

\* The discrimination with >= in place of >
ScaleToMs_atThreshold(n) ==
    IF n.t # "number" THEN JNaN
    ELSE IF n.n >= Threshold THEN n ELSE JNum(n.n * 1000)

\* n > 1e12 ? n : n * 1000  (comparisons with NaN are false, NaN * 1000 is NaN)
ScaleToMs(n) ==
    IF n.t # "number" THEN JNaN
    ELSE IF n.n > Threshold THEN n ELSE JNum(n.n * 1000)

msToIso(ms) ==
    IF ~Truthy(ms) THEN JNull
    ELSE toISOString(ScaleToMs(Number(ms)))

----------------------------------------------------------------------------
(* mapOperation *)

\* The table without toUpperCase
mapOperation_caseSensitive(n, rInfo) ==
    LET t == IF Truthy(Get(n, "notificationType"))
             THEN Get(n, "notificationType").s ELSE ""
    IN CASE t = "SUBSCRIBED" -> "purchase"
         [] t = "DID_RENEW" -> "renew"
         [] t = "DID_CHANGE_RENEWAL_STATUS" ->
                IF Get(rInfo, "autoRenewStatus") = JStr("OFF")
                THEN "auto_renew_off" ELSE "auto_renew_on"
         [] t = "DID_FAIL_TO_RENEW" -> "renew_failed"
         [] t = "GRACE_PERIOD_EXPIRED" -> "grace_expired"
         [] t = "EXPIRED" -> "expired"
         [] t = "REFUND" -> "revoked"
         [] t = "REVOKE" -> "revoked"
         [] OTHER -> IF toLowerCase(t) # "" THEN toLowerCase(t) ELSE "other"

mapOperation(n, rInfo) ==
    LET t == toUpperCase(IF Truthy(Get(n, "notificationType"))
                         THEN Get(n, "notificationType").s ELSE "")
    IN CASE t = "SUBSCRIBED" -> "purchase"
         [] t = "DID_RENEW" -> "renew"
         [] t = "DID_CHANGE_RENEWAL_STATUS" ->
                IF Get(rInfo, "autoRenewStatus") = JStr("OFF")
                THEN "auto_renew_off" ELSE "auto_renew_on"
         [] t = "DID_FAIL_TO_RENEW" -> "renew_failed"
         [] t = "GRACE_PERIOD_EXPIRED" -> "grace_expired"
         [] t = "EXPIRED" -> "expired"
         [] t = "REFUND" -> "revoked"
         [] t = "REVOKE" -> "revoked"
         [] OTHER -> IF toLowerCase(t) # "" THEN toLowerCase(t) ELSE "other"

----------------------------------------------------------------------------
(* Normalisation: the body of the handler between the last verification    *)
(* and the forward.                                                        *)

NoOut == [t |-> "none"]

\* A derivation that forgets the renewal's auto-renew target
ProductId_txnOnly(txn, ren) ==
    Or(Get(txn, "productId"), JStr(""))

\* const productId = txnInfo?.productId || renInfo?.autoRenewPreference || ''
ProductId(txn, ren) ==
    Or(Or(Get(txn, "productId"), Get(ren, "autoRenewPreference")), JStr(""))

\* entitlements: productId ? [{...}] : []
Entitlements(productId, txn, expiresIso) ==
    IF Truthy(productId)
    THEN <<[product_id |-> productId,
            original_transaction_id |->
                String(Or(Get(txn, "originalTransactionId"), JStr(""))),
            expires_at |-> expiresIso]>>
    ELSE <<>>

\* new Date().toISOString() at the time `now` of the request
Now(now) == toISOString(JNum(now))

\* The out object with `stamp` in its now field, or the exception that
\* building it throws.
Event(n, txn, ren, stamp) ==
    LET productId == ProductId(txn, ren)
        expiresIso == msToIso(Get(txn, "expiresDate"))
    IN IF Throws(expiresIso) THEN expiresIso
       ELSE [t |-> "object",
             now |-> stamp,
             source |-> JStr("apple-assn"),
             operation |-> JStr(mapOperation(n, ren)),
             environment |-> Or(Get(Get(n, "data"), "environment"), JStr("")),
             notification_uuid |-> Or(Get(n, "notificationUUID"), JStr("")),
             type |-> Or(Get(n, "notificationType"), JStr("")),
             subtype |-> Or(Get(n, "subtype"), JStr("")),
             transaction_id |->
                 String(Or(Get(txn, "transactionId"), JStr(""))),
             transaction_expires_at |-> expiresIso,
             products |-> IF Truthy(productId) THEN <<productId>> ELSE <<>>,
             entitlements |-> Entitlements(productId, txn, expiresIso),
             app_account_token |->
                 Or(Or(Get(txn, "appAccountToken"),
                       Get(ren, "appAccountToken")), JStr(""))]

\* A normalisation that falls back on the current time for a missing expiry
Normalize_expiryDefaultsToNow(n, txn, ren, now) ==
    LET e == Event(n, txn, ren, Now(now))
    IN IF Throws(e) \/ e.transaction_expires_at # JNull THEN e
       ELSE [e EXCEPT !.transaction_expires_at = Now(now)]

\* The event built from the three claim sets by a request handled at time
\* `now`.
Normalize(n, txn, ren, now) == Event(n, txn, ren, Now(now))

----------------------------------------------------------------------------
(* Signed tokens and keys.                                                 *)
(*                                                                         *)
(* A compact JWS is the record of what decides its verification: whether   *)
(* it parses, its protected header (kid, x5c, alg), the algorithm and the  *)
(* key its signature was really produced with, and its payload.  A         *)
(* signature checks under (algorithm a, key k) exactly when it was         *)
(* produced with a by the holder of k (for HS256, with k's public bytes as *)
(* the secret: the algorithm-confusion forgery).                           *)

Jws(wellFormed, kid, x5c, alg, sigAlg, signer, payload) ==
    [t |-> "jws", wellFormed |-> wellFormed, kid |-> kid, x5c |-> x5c,
     alg |-> alg, sigAlg |-> sigAlg, signer |-> signer, payload |-> payload]

JArr(items) == [t |-> "array", items |-> items]

\* apple_keys.json: the configured key set
appleKeys == {[kid |-> "K1", key |-> "pk1"], [kid |-> "K2", key |-> "pk2"]}

\* importX509(cert, 'ES256'): the public key of a certificate
importX509(cert) ==
    CASE cert = "certA" -> "pkA"
      [] cert = "certB" -> "pkB"
      [] OTHER -> "pk?"

NoKey == "none"

Ok(key, payload) ==
    [ran |-> TRUE, ok |-> TRUE, err |-> "", key |-> key, payload |-> payload]

Fail(err, key) ==
    [ran |-> TRUE, ok |-> FALSE, err |-> err, key |-> key, payload |-> JNull]

NotRun ==
    [ran |-> FALSE, ok |-> FALSE, err |-> "", key |-> NoKey, payload |-> JNull]

\* Accepting whatever algorithm the header declares
Algorithms_fromHeader(jws) == {jws.alg}

\* { algorithms: ['ES256'] }: the algorithms jwtVerify accepts
Algorithms(jws) == {"ES256"}

\* jose's signature check of jws under key with the header's algorithm
SignatureChecks(jws, key) == jws.sigAlg = jws.alg /\ jws.signer = key

\* jwtVerify(jws, key, { algorithms }) with a key object: the header's alg
\* must be an accepted algorithm (else JOSEAlgNotAllowed), then the
\* signature must check (else JWSSignatureVerificationFailed).
jwtVerify(jws, key) ==
    IF jws.alg \notin Algorithms(jws) THEN Fail("SignatureInvalid", key)
    ELSE IF ~SignatureChecks(jws, key) THEN Fail("SignatureInvalid", key)
    ELSE Ok(key, jws.payload)

\* jwtVerify(jws, JWKS, { algorithms }) with a key set (createLocalJWKSet,
\* createRemoteJWKSet): jose checks the algorithm first, then selects the
\* keys of the set matching the header (by kid when the header has one):
\* none is JWKSNoMatchingKey, several is JWKSMultipleMatchingKeys.
jwtVerifyJWKS(jws) ==
    IF ~jws.wellFormed THEN Fail("MalformedToken", NoKey)
    ELSE IF jws.alg \notin Algorithms(jws) THEN Fail("SignatureInvalid", NoKey)
    ELSE LET cands == {k \in appleKeys :
                          jws.kid.t = "string" => JStr(k.kid) = jws.kid}
         IN IF cands = {} THEN Fail("KeyNotFound", NoKey)
            ELSE IF Cardinality(cands) > 1
                 THEN Fail("MultipleMatchingKeys", NoKey)
            ELSE jwtVerify(jws, (CHOOSE k \in cands : TRUE).key)

\* A resolution that falls back on x5c when the kid is not in the key set
verifyAndDecode_x5cFallback(jws) ==
    IF ~jws.wellFormed THEN Fail("MalformedToken", NoKey)
    ELSE LET found == {k \in appleKeys : JStr(k.kid) = jws.kid}
             hasX5c == Truthy(jws.x5c) /\ Len(jws.x5c.items) > 0
         IN IF Truthy(jws.kid) /\ found # {}
            THEN jwtVerify(jws, (CHOOSE k \in found : TRUE).key)
            ELSE IF hasX5c
                 THEN jwtVerify(jws, importX509(jws.x5c.items[1]))
            ELSE IF Truthy(jws.kid) THEN Fail("KeyNotFound", NoKey)
            ELSE Fail("NoKeyMaterial", NoKey)

\* api/webhook.js: kid first, then x5c, then nothing
verifyAndDecode_webhook(jws) ==
    IF ~jws.wellFormed THEN Fail("MalformedToken", NoKey)
    ELSE IF Truthy(jws.kid)
         THEN LET found == {k \in appleKeys : JStr(k.kid) = jws.kid}
              IN IF found = {} THEN Fail("KeyNotFound", NoKey)
                 ELSE jwtVerify(jws, (CHOOSE k \in found : TRUE).key)
    ELSE IF Truthy(jws.x5c) /\ Len(jws.x5c.items) > 0
         THEN jwtVerify(jws, importX509(jws.x5c.items[1]))
    ELSE Fail("NoKeyMaterial", NoKey)

\* the kid-only variant: appleKeys.find(k => k.kid === kid), kid possibly
\* undefined
verifyAndDecode_kidOnly(jws) ==
    IF ~jws.wellFormed THEN Fail("MalformedToken", NoKey)
    ELSE LET found == {k \in appleKeys : JStr(k.kid) = jws.kid}
         IN IF found = {} THEN Fail("KeyNotFound", NoKey)
            ELSE jwtVerify(jws, (CHOOSE k \in found : TRUE).key)

Variants == {"webhook", "webhook_jwks", "part_000", "part_001"}

verifyAndDecode(v, jws) ==
    CASE v = "webhook" -> verifyAndDecode_webhook(jws)
      [] v = "part_000" -> verifyAndDecode_kidOnly(jws)
      [] v = "webhook_jwks" -> jwtVerifyJWKS(jws)
      [] v = "part_001" -> jwtVerifyJWKS(jws)

----------------------------------------------------------------------------
(* The handler *)

Layers == {"outer", "txn", "ren"}

NoReq == [method |-> "", body |-> JUndef]

NoRes == [status |-> 0, body |-> JUndef]

NoForward == [t |-> "none"]

EmptyObject == [t |-> "object", signedPayload |-> JUndef, event |-> JUndef]

\* The body the handler works on.  api/webhook.js reads the raw body and
\* parses it itself, falling back to {} when it is not JSON; the other
\* variants take req.body as the platform parsed it.
Body(v, r) ==
    IF v = "webhook" /\ r.body = JUndef THEN EmptyObject ELSE r.body

Echo(body) == [t |-> "object", received |-> TRUE, body |-> body]

\* What a POST without signedPayload is answered with
NoPayloadResponse(v, body) ==
    IF v = "part_001"
    THEN [status |-> 400, body |-> JStr("missing signedPayload")]
    ELSE [status |-> 200, body |-> Echo(body)]

\* A handler that swallows the failure of a nested token
Continues_nestedLenient(layer, r) == r.ok \/ layer # "outer"

\* Whether the handler carries on after verifyAndDecode returned r for a
\* layer: a thrown error leaves the try block.
Continues(layer, r) == r.ok

\* catch (e) { return res.status(400).send(String(e)) }
Rejection(e) == [status |-> 400, body |-> JStr(e)]

Init ==
    /\ variant \in Variants
    /\ pc = "idle"
    /\ req = NoReq
    /\ note = JUndef
    /\ txnInfo = JNull
    /\ renInfo = JNull
    /\ results = [l \in Layers |-> NotRun]
    /\ out = NoOut
    /\ prevOut = NoOut
    /\ clock = 0
    /\ forwards = <<>>
    /\ forward = NoForward
    /\ res = NoRes

Receive(r) ==
    /\ pc = "idle"
    /\ req' = r
    /\ pc' = "start"
    /\ UNCHANGED <<forward, variant, note, txnInfo, renInfo, results, out, prevOut,
                   clock, forwards, res>>

\* From the method checks to the test of body.signedPayload
Start ==
    /\ pc = "start"
    /\ LET body == Body(variant, req)
       IN IF req.method = "GET"
          THEN pc' = "done" /\ res' = [status |-> 200, body |-> JStr("ok")]
          ELSE IF req.method # "POST"
          THEN pc' = "done"
               /\ res' = [status |-> 405, body |-> JStr("method not allowed")]
          ELSE IF Truthy(Get(body, "signedPayload"))
          THEN pc' = "verifyOuter" /\ res' = res
          ELSE pc' = "done" /\ res' = NoPayloadResponse(variant, body)
    /\ UNCHANGED <<forward, variant, req, note, txnInfo, renInfo, results, out,
                   prevOut, clock, forwards>>

\* const note = await verifyAndDecode(signedPayload)
VerifyOuter ==
    /\ pc = "verifyOuter"
    /\ LET r == verifyAndDecode(variant,
                               Get(Body(variant, req), "signedPayload"))
       IN /\ results' = [results EXCEPT !["outer"] = r]
          /\ IF Continues("outer", r)
             THEN note' = r.payload /\ pc' = "verifyTxn" /\ res' = res
             ELSE note' = note /\ pc' = "done" /\ res' = Rejection(r.err)
    /\ UNCHANGED <<forward, variant, req, txnInfo, renInfo, out, prevOut, clock,
                   forwards>>

\* const txnInfo = note?.data?.signedTransactionInfo
\*     ? await verifyAndDecode(note.data.signedTransactionInfo) : null
VerifyTxn ==
    /\ pc = "verifyTxn"
    /\ LET jws == Get(Get(note, "data"), "signedTransactionInfo")
           r == verifyAndDecode(variant, jws)
       IN IF ~Truthy(jws)
          THEN txnInfo' = JNull /\ pc' = "verifyRen"
               /\ UNCHANGED <<results, res>>
          ELSE /\ results' = [results EXCEPT !["txn"] = r]
               /\ IF Continues("txn", r)
                  THEN txnInfo' = r.payload /\ pc' = "verifyRen" /\ res' = res
                  ELSE txnInfo' = txnInfo /\ pc' = "done"
                       /\ res' = Rejection(r.err)
    /\ UNCHANGED <<forward, variant, req, note, renInfo, out, prevOut, clock,
                   forwards>>

\* const renInfo = note?.data?.signedRenewalInfo
\*     ? await verifyAndDecode(note.data.signedRenewalInfo) : null
VerifyRen ==
    /\ pc = "verifyRen"
    /\ LET jws == Get(Get(note, "data"), "signedRenewalInfo")
           r == verifyAndDecode(variant, jws)
       IN IF ~Truthy(jws)
          THEN renInfo' = JNull /\ pc' = "normalize"
               /\ UNCHANGED <<results, res>>
          ELSE /\ results' = [results EXCEPT !["ren"] = r]
               /\ IF Continues("ren", r)
                  THEN renInfo' = r.payload /\ pc' = "normalize" /\ res' = res
                  ELSE renInfo' = renInfo /\ pc' = "done"
                       /\ res' = Rejection(r.err)
    /\ UNCHANGED <<forward, variant, req, note, txnInfo, out, prevOut, clock,
                   forwards>>

\* productId, expiresIso, operation and the out object; an exception thrown
\* on the way is caught by the handler's catch
NormalizeStep ==
    /\ pc = "normalize"
    /\ LET o == Normalize(note, txnInfo, renInfo, clock)
       IN IF Throws(o)
          THEN out' = out /\ pc' = "done" /\ res' = Rejection(o.name)
          ELSE out' = o /\ pc' = "forward" /\ res' = res
    /\ UNCHANGED <<forward, variant, req, note, txnInfo, renInfo, results, prevOut,
                   clock, forwards>>

\* fetch(process.env.BUBBLE_HOOK_URL, { method: 'POST', body: out })
ForwardCall ==
    /\ pc = "forward"
    /\ forwards' = Append(forwards, out)
    /\ pc' = "awaitForward"
    /\ UNCHANGED <<forward, variant, req, note, txnInfo, renInfo, results, out,
                   prevOut, clock, res>>

DownstreamStatuses == {200, 401, 500}

\* A response that reports every downstream failure as 502
ForwardedResponse_badGateway(fwd) ==
    [status |-> 200,
     body |-> [t |-> "object",
               forwardedStatus |-> IF fwd.status < 400 THEN fwd.status
                                   ELSE 502]]

\* res.status(200).json({ forwardedStatus: forward.status })
ForwardedResponse(fwd) ==
    [status |-> 200,
     body |-> [t |-> "object", forwardedStatus |-> fwd.status]]

\* fetch resolves with the downstream status, whatever it is, and the
\* handler returns
ForwardReturn(status) ==
    /\ pc = "awaitForward"
    /\ forward' = [t |-> "response", status |-> status]
    /\ res' = ForwardedResponse(forward')
    /\ pc' = "done"
    /\ UNCHANGED <<variant, req, note, txnInfo, renInfo, results, out,
                   prevOut, clock, forwards>>

\* fetch rejects (the endpoint cannot be reached): caught like any error
ForwardFail ==
    /\ pc = "awaitForward"
    /\ res' = Rejection("TypeError: fetch failed")
    /\ pc' = "done"
    /\ UNCHANGED <<forward, variant, req, note, txnInfo, renInfo, results, out,
                   prevOut, clock, forwards>>

MaxClock == 1

\* Time passes
Tick ==
    /\ clock < MaxClock
    /\ clock' = clock + 1
    /\ UNCHANGED <<forward, variant, pc, req, note, txnInfo, renInfo, results, out,
                   prevOut, forwards, res>>

\* The platform delivers the same notification once more: a new invocation
\* of the handler on the same request.
Redeliver ==
    /\ pc = "done"
    /\ out # NoOut
    /\ prevOut = NoOut
    /\ prevOut' = out
    /\ pc' = "start"
    /\ note' = JUndef
    /\ txnInfo' = JNull
    /\ renInfo' = JNull
    /\ results' = [l \in Layers |-> NotRun]
    /\ out' = NoOut
    /\ forwards' = <<>>
    /\ res' = NoRes
    /\ forward' = NoForward
    /\ UNCHANGED <<variant, req, clock>>

Steps ==
    \/ Start
    \/ VerifyOuter
    \/ VerifyTxn
    \/ VerifyRen
    \/ NormalizeStep
    \/ ForwardCall
    \/ \E status \in DownstreamStatuses : ForwardReturn(status)
    \/ ForwardFail
    \/ Tick

----------------------------------------------------------------------------
(* Requests *)

Object(signedPayload) ==
    [t |-> "object", signedPayload |-> signedPayload, event |-> JStr("ping")]

Post(body) == [method |-> "POST", body |-> body]

Data(environment, txnJws, renJws) ==
    [t |-> "object", environment |-> environment,
     signedTransactionInfo |-> txnJws, signedRenewalInfo |-> renJws]

Notification(type, subtype, uuid, data) ==
    [t |-> "object", notificationType |-> type, subtype |-> subtype,
     notificationUUID |-> uuid, data |-> data]

Transaction(productId, expiresDate) ==
    [t |-> "object", productId |-> productId, expiresDate |-> expiresDate,
     transactionId |-> JStr("2000000123"),
     originalTransactionId |-> JStr("2000000100"),
     appAccountToken |-> JUndef]

Renewal(autoRenewStatus, autoRenewPreference) ==
    [t |-> "object", autoRenewStatus |-> autoRenewStatus,
     autoRenewPreference |-> autoRenewPreference,
     appAccountToken |-> JStr("acct-1")]

\* A token every variant verifies: kid of the key set, signed ES256 by it
Signed(payload) ==
    Jws(TRUE, JStr("K1"), JUndef, "ES256", "ES256", "pk1", payload)

Kids == {JUndef, JStr(""), JStr("K1"), JStr("KX")}

X5cs == {JUndef, JArr(<<>>), JArr(<<"certA">>), JArr(<<"certA", "certB">>)}

Algs == {"ES256", "HS256"}

Signers == {"pk1", "pkA", "pkB"}

\* Nested tokens: absent, empty, or one of the ways a token verifies or fails
Nested(payload) ==
    {JUndef,
     Signed(payload),
     Jws(TRUE, JUndef, JArr(<<"certA">>), "ES256", "ES256", "pkA", payload),
     Jws(TRUE, JStr("K1"), JUndef, "ES256", "ES256", "pkA", payload),
     Jws(TRUE, JStr("KX"), JArr(<<"certA">>), "ES256", "ES256", "pkA", payload),
     Jws(TRUE, JUndef, JUndef, "ES256", "ES256", "pk1", payload),
     Jws(TRUE, JStr("K1"), JUndef, "HS256", "HS256", "pk1", payload),
     Jws(TRUE, JStr("K1"), JUndef, "ES256", "HS256", "pk1", payload),
     Jws(FALSE, JUndef, JUndef, "ES256", "ES256", "pk1", payload)}

Transaction1 == Transaction(JStr("pro_monthly"), JNum(17))

Renewal1 == Renewal(JNum(1), JStr("pro_monthly"))

\* A notification carrying the two nested tokens
Note1(txnJws, renJws) ==
    Notification(JStr("SUBSCRIBED"), JUndef, JStr("uuid-1"),
                 Data(JStr("Sandbox"), txnJws, renJws))

\* Outer tokens: every header and signature over one notification whose
\* nested tokens verify, and the two outer tokens that verify (by kid, by
\* x5c) over every pair of nested tokens; and a string that is no JWS.
OuterTokens ==
    {Jws(TRUE, k, x, a, sa, sg, Note1(Signed(Transaction1), Signed(Renewal1))) :
        k \in Kids, x \in X5cs, a \in Algs, sa \in Algs, sg \in Signers}
    \cup {Jws(TRUE, h[1], h[2], "ES256", "ES256", h[3], Note1(tx, rn)) :
            h \in {<<JStr("K1"), JUndef, "pk1">>,
                   <<JUndef, JArr(<<"certA">>), "pkA">>},
            tx \in Nested(Transaction1), rn \in Nested(Renewal1)}
    \cup {Jws(FALSE, JUndef, JUndef, "ES256", "ES256", "pk1", JNull)}

\* What can arrive at a deployed handler
Requests ==
    {[method |-> "GET", body |-> JUndef],
     [method |-> "PUT", body |-> JUndef],
     Post(JUndef), Post(Object(JUndef)), Post(Object(JStr("")))}
    \cup {Post(Object(jws)) : jws \in OuterTokens}

NotificationTypes ==
    {JUndef, JStr(""), JStr("SUBSCRIBED"), JStr("subscribed"),
     JStr("DID_RENEW"), JStr("Did_Renew"), JStr("DID_CHANGE_RENEWAL_STATUS"),
     JStr("did_change_renewal_status"), JStr("DID_FAIL_TO_RENEW"),
     JStr("GRACE_PERIOD_EXPIRED"), JStr("EXPIRED"), JStr("expired"),
     JStr("REFUND"), JStr("REVOKE"), JStr("revoke"), JStr("TEST"),
     JStr("Price_Increase")}

ExpiresDates ==
    {JUndef, JNull, JNum(0), JStr("0"), JStr(""), JNum(17), JStr("17"),
     JNum(17000), JStr("17000"), JNum(10), JNum(Threshold - 1),
     JNum(Threshold), JNum(Threshold + 1), JNum(Threshold * 1000),
     JStr("abc"), JNum(MaxTimeValue + 1)}

Transactions ==
    {Transaction(p, e) :
        p \in {JUndef, JStr(""), JStr("pro_monthly")}, e \in ExpiresDates}

Renewals ==
    {Renewal(st, pr) :
        st \in {JUndef, JStr("OFF"), JStr("off"), JNum(0)},
        pr \in {JUndef, JStr("pro_yearly")}}

\* Properly signed notifications over the claim sets the normaliser reads:
\* without a data block; every type with every renewal; every transaction
\* with every renewal.
VerifiedNotes ==
    {Notification(ty, JUndef, JUndef, JUndef) : ty \in NotificationTypes}
    \cup {Notification(ty, JStr("INITIAL_BUY"), JStr("uuid-1"),
                       Data(JStr("Production"), Signed(Transaction1), rn)) :
            ty \in NotificationTypes,
            rn \in {JUndef} \cup {Signed(c) : c \in Renewals}}
    \cup {Notification(JStr("DID_RENEW"), JUndef, JStr("uuid-2"),
                       Data(JUndef, tx, rn)) :
            tx \in {JUndef} \cup {Signed(c) : c \in Transactions},
            rn \in {JUndef} \cup {Signed(c) : c \in Renewals}}

VerifiedRequests == {Post(Object(Signed(n))) : n \in VerifiedNotes}

----------------------------------------------------------------------------
(* Specifications *)

\* A request arrives at a deployed variant
Arrive == pc = "idle" /\ \E r \in Requests : Receive(r)

Next == Arrive \/ Steps

Spec == Init /\ [][Next]_vars

\* Properly signed notifications, delivered once or twice, at api/webhook.js
InitNorm == Init /\ variant = "webhook"

ArriveVerified == pc = "idle" /\ \E r \in VerifiedRequests : Receive(r)

NextNorm == ArriveVerified \/ Steps \/ Redeliver

SpecNorm == InitNorm /\ [][NextNorm]_vars

----------------------------------------------------------------------------
(* Properties of the pipeline (Spec) *)

\* The token of the request at each layer
OuterJws == Get(Body(variant, req), "signedPayload")

JwsAt(l) ==
    CASE l = "outer" -> OuterJws
      [] l = "txn" ->
            Get(Get(Get(OuterJws, "payload"), "data"), "signedTransactionInfo")
      [] l = "ren" ->
            Get(Get(Get(OuterJws, "payload"), "data"), "signedRenewalInfo")

\* The layers whose token was handed to verifyAndDecode and parsed
Checked == {l \in Layers : results[l].ran /\ JwsAt(l).wellFormed}

InKeySet(kid) == \E k \in appleKeys : JStr(k.kid) = kid

KeyOf(kid) == (CHOOSE k \in appleKeys : JStr(k.kid) = kid).key

NonEmptyX5c(jws) == jws.x5c.t = "array" /\ jws.x5c.items # <<>>

\* C1: an event is forwarded only once the outer token and every nested
\* token that is present have verified; when the verification of any layer
\* fails the request is answered 400 and nothing is forwarded.
C1_ForwardOnlyAfterAllVerified ==
    /\ forwards # <<>> =>
          \A l \in Layers : Truthy(JwsAt(l)) => results[l].ok
    /\ (\E l \in Layers : results[l].ran /\ ~results[l].ok) =>
          forwards = <<>> /\ pc = "done" /\ res.status = 400

C1_Witness ==
    /\ results["outer"].ok /\ results["txn"].ok
    /\ results["ren"].ran /\ ~results["ren"].ok
    /\ pc = "done" /\ res.status = 400 /\ forwards = <<>>

\* Whether a header carries a kid: a non-empty string, as if (header.kid)
\* tests it
HasKid(jws) == jws.kid.t = "string" /\ jws.kid.s # ""

\* C2 as claimed: in the verifyAndDecode of api/webhook.js and in the
\* kid-only one alike, a header with a kid is resolved in the key set
\* (KeyNotFound when it is not there), else a header with a non-empty x5c by
\* its leaf certificate, else the verification fails with NoKeyMaterial.
C2_Original ==
    \A l \in Checked :
        LET jws == JwsAt(l)
            r == results[l]
        IN variant \in {"webhook", "part_000"} =>
           IF HasKid(jws)
           THEN IF InKeySet(jws.kid) THEN r.key = KeyOf(jws.kid)
                ELSE r.err = "KeyNotFound" /\ r.key = NoKey
           ELSE IF NonEmptyX5c(jws) THEN r.key = importX509(jws.x5c.items[1])
           ELSE r.err = "NoKeyMaterial"

\* C2 as amended: the priority is that of api/webhook.js alone; the
\* kid-only variant resolves by kid and answers KeyNotFound for every header
\* whose kid is missing or not in the key set, x5c or not.
C2_KeyResolutionPriority ==
    \A l \in Checked :
        LET jws == JwsAt(l)
            r == results[l]
        IN /\ variant = "webhook" =>
                IF HasKid(jws)
                THEN IF InKeySet(jws.kid) THEN r.key = KeyOf(jws.kid)
                     ELSE r.err = "KeyNotFound" /\ r.key = NoKey
                ELSE IF NonEmptyX5c(jws)
                     THEN r.key = importX509(jws.x5c.items[1])
                ELSE r.err = "NoKeyMaterial"
           /\ variant = "part_000" =>
                IF HasKid(jws) /\ InKeySet(jws.kid)
                THEN r.key = KeyOf(jws.kid)
                ELSE r.err = "KeyNotFound" /\ r.key = NoKey

C2_Witness ==
    /\ variant = "webhook"
    /\ results["outer"].ran
    /\ OuterJws.kid = JStr("KX") /\ NonEmptyX5c(OuterJws)
    /\ results["outer"].err = "KeyNotFound"

C4_Original ==
    (/\ pc = "done"
     /\ req.method = "POST"
     /\ ~Truthy(Get(Body(variant, req), "signedPayload")))
    => /\ res = [status |-> 200, body |-> Echo(Body(variant, req))]
       /\ \A l \in Layers : ~results[l].ran
       /\ forwards = <<>>

----------------------------------------------------------------------------
(* Properties of the normalisation (SpecNorm) *)

\* The operation the table gives for a type code and the renewal info
TableOperation(type, ren) ==
    LET code == IF type.t = "string" THEN type.s ELSE ""
        lc == toLowerCase(code)
    IN CASE lc = "subscribed" -> "purchase"
         [] lc = "did_renew" -> "renew"
         [] lc = "did_fail_to_renew" -> "renew_failed"
         [] lc = "grace_period_expired" -> "grace_expired"
         [] lc = "expired" -> "expired"
         [] lc \in {"refund", "revoke"} -> "revoked"
         [] lc = "did_change_renewal_status" ->
                IF ren # JNull /\ ren.autoRenewStatus = JStr("OFF")
                THEN "auto_renew_off" ELSE "auto_renew_on"
         [] code = "" -> "other"
         [] OTHER -> lc

\* C5: the operation of every event is the one the lookup table gives for
\* the notification's type code, compared case-insensitively.
C5_OperationTable ==
    out # NoOut =>
        out.operation = JStr(TableOperation(note.notificationType, renInfo))

C5_Witness ==
    /\ out # NoOut
    /\ note.notificationType = JStr("did_change_renewal_status")
    /\ renInfo # JNull /\ renInfo.autoRenewStatus = JStr("OFF")
    /\ out.operation = JStr("auto_renew_off")

\* The numeric value of the transaction's expiresDate, when it has one that
\* is not zero
HasExpiry ==
    /\ txnInfo # JNull
    /\ Truthy(txnInfo.expiresDate)
    /\ Number(txnInfo.expiresDate).t = "number"
    /\ Number(txnInfo.expiresDate).n # 0

Expiry == Number(txnInfo.expiresDate).n

\* C6 as claimed: a value >= 10^12 is taken as milliseconds, a smaller one
\* as seconds, the value 10^12 itself included.
C6_Original ==
    (out # NoOut /\ HasExpiry) =>
        out.transaction_expires_at =
            toISOString(JNum(IF Expiry >= Threshold THEN Expiry
                             ELSE Expiry * 1000))

\* C6 as amended: a value > 10^12 is taken as milliseconds, every other
\* non-zero value (10^12 included) as seconds; a seconds value s whose
\* 1000 * s is above 10^12 converts to the same instant as 1000 * s.
C6_UnitDiscrimination ==
    (out # NoOut /\ HasExpiry) =>
        /\ out.transaction_expires_at =
              toISOString(JNum(IF Expiry > Threshold THEN Expiry
                               ELSE Expiry * 1000))
        /\ (Expiry <= Threshold /\ Expiry * 1000 > Threshold) =>
              out.transaction_expires_at = msToIso(JNum(Expiry * 1000))

C6_Witness ==
    /\ out # NoOut
    /\ txnInfo # JNull /\ txnInfo.expiresDate = JNum(Threshold)
    /\ out.transaction_expires_at = toISOString(JNum(Threshold * 1000))

EpochIso == toISOString(JNum(0))

\* C7 as claimed: a missing, null, 0 or "0" expiresDate gives a null
\* transaction_expires_at and a null expires_at in the entitlement.
C7_Original ==
    (/\ out # NoOut
     /\ \/ txnInfo = JNull
        \/ txnInfo.expiresDate \in {JUndef, JNull, JNum(0), JStr("0")})
    => /\ out.transaction_expires_at = JNull
       /\ out.transaction_expires_at # EpochIso
       /\ \A i \in 1..Len(out.entitlements) :
             out.entitlements[i].expires_at = JNull

\* C8 as claimed: a request whose tokens all verified is never rejected by
\* the normalisation: once it is answered, the event has been built.
C8_Original ==
    (/\ pc = "done"
     /\ results["outer"].ok
     /\ \A l \in Layers : Truthy(JwsAt(l)) => results[l].ok)
    => out # NoOut

DerivedProduct ==
    IF txnInfo # JNull /\ Truthy(txnInfo.productId) THEN txnInfo.productId
    ELSE IF renInfo # JNull /\ Truthy(renInfo.autoRenewPreference)
         THEN renInfo.autoRenewPreference
    ELSE JStr("")

\* C10: products and entitlements are both empty or both singletons; they
\* are singletons exactly when a non-empty product id was derived, and then
\* carry that id and the event's expiry.
C10_ProductsAndEntitlements ==
    out # NoOut =>
        /\ Len(out.products) = Len(out.entitlements)
        /\ Len(out.products) \in {0, 1}
        /\ Len(out.products) = 1 <=> DerivedProduct # JStr("")
        /\ Len(out.products) = 1 =>
              /\ out.products[1] = DerivedProduct
              /\ out.entitlements[1].product_id = out.products[1]
              /\ out.entitlements[1].expires_at = out.transaction_expires_at

C10_Witness ==
    /\ out # NoOut
    /\ txnInfo # JNull /\ ~Truthy(txnInfo.productId)
    /\ out.products = <<JStr("pro_yearly")>>
    /\ out.entitlements[1].expires_at # JNull

----------------------------------------------------------------------------
(* Properties of the forward (Spec) *)

\* C11 as claimed: the status the downstream endpoint returned is the
\* status of the response the caller gets.
C11_Original ==
    (pc = "done" /\ forward # NoForward) => res.status = forward.status

\* C11 as amended: the status the downstream endpoint returned reaches the
\* caller unmodified in the body field forwardedStatus, in a response whose
\* own status is 200 whatever the downstream status was.
C11_StatusSurfacedInBody ==
    (pc = "done" /\ forward # NoForward) =>
        /\ res.status = 200
        /\ res.body = [t |-> "object", forwardedStatus |-> forward.status]
        /\ forwards = <<out>>
        /\ \A l \in Layers : Truthy(JwsAt(l)) => results[l].ok

C11_Witness ==
    /\ pc = "done"
    /\ forward # NoForward /\ forward.status = 500
    /\ res.status = 200
    /\ res.body.forwardedStatus = 500

====
